---- MODULE Spec2Model ----
(***************************************************************************)
(* Model of the SHT85 humidity/temperature driver.                         *)
(*                                                                         *)
(* The repository holds two revisions of the driver:                       *)
(*   rev "A": src/sht85/sht85.py (class SHT85) on top of src/sht.py        *)
(*            (class SHT) and src/conversion_utils.py;                     *)
(*   rev "B": src/sht85.py, the stand-alone class SHT85.                   *)
(* The variable rev says which revision the caller's program uses.         *)
(*                                                                         *)
(* A behaviour starts before the constructor is called.  In rev B a        *)
(* constructor call with legal arguments returns an instance.  In rev A no *)
(* call does: SHT85.__init__ calls super().__init__(bus) without the       *)
(* lookup-table argument, which Python rejects with TypeError (and the     *)
(* class body of src/sht.py applies SHT.calculate_crc as                   *)
(* calculate_crc(kw=...), a TypeError as soon as the module is executed).  *)
(* The operations of rev A are translated all the same; each is what the   *)
(* method does on an instance, a decorated method being the method body    *)
(* inside the wrapper its decorator defines.  Every call made inside a     *)
(* method follows Python's semantics, exceptions included.                 *)
(*                                                                         *)
(* warnings.warn runs under the interpreter's default filter, which shows  *)
(* a warning of a given text from a given line once per process; the       *)
(* variable shown is that registry.  logger.warning always emits.          *)
(*                                                                         *)
(* Spec is a caller's session: the constructor call, then the instance in  *)
(* use, that is its methods (the read, write and check_crc wrappers        *)
(* included), assignments to its public attributes rep, mps and            *)
(* check_crc_bool, and adapter calls that may end in a transport error     *)
(* (OSError).  The instance stays callable after close().  A session is    *)
(* at most MaxCalls calls long.  SpecCtor is the constructor call over     *)
(* every argument triple.  SpecStatus, SpecDew, SpecPure, SpecConv and     *)
(* SpecHex call one operation or function over its whole input domain.     *)
(*                                                                         *)
(* Units.  Python floats are kept as exact integers:                       *)
(*   temperature      in 1/100 degree Celsius  (round(x, 2) * 100),        *)
(*   relative humidity in 1/1000 percent       (so that 1e-3 is 1),        *)
(*   settle delays     in microseconds,                                    *)
(*   measurement rate  in 1/10 Hz              (0.5 Hz is 5).              *)
(* Python values of different types are tagged records: [tag |-> "None"],  *)
(* [tag |-> "num", v |-> n], [tag |-> "list", v |-> <<..>>], ...           *)
(***************************************************************************)
EXTENDS Integers, Sequences, FiniteSets, TLC

VARIABLES
    rev,             \* which revision of the driver the instance is
    rep,             \* self.rep
    mps,             \* self.mps (1/10 Hz)
    check_crc_bool,  \* rev A: self.check_crc_bool
    data,            \* rev A: self.data (absent until the first read)
    t, rh, dp,       \* self.t, self.rh, self.dp: the stored Reading
    handle,          \* the bus handle self.bus: "none", "open" or "closed"
    mode,            \* operating mode of the sensor behind the bus
    op,              \* the public operation (or pure function) called last
    arg,             \* argument of the last call, where it takes one
    busLog,          \* adapter calls and sleeps made by the last operation
    warns,           \* warnings and log records the last operation emitted
    shown,           \* texts warnings.warn has shown so far in this process
    ret,             \* value the last operation returned to its caller
    exc,             \* exception the last operation raised ("none" if none)
    calls            \* number of calls the caller has made on the instance

vars == <<rev, rep, mps, check_crc_bool, data, t, rh, dp, handle, mode, op,
          arg, busLog, warns, shown, ret, exc, calls>>

\* Number of sample payload words (and sample status bytes) the bus may return.
NumWords == 2

\* A transport error may strike any of the first MaxFail adapter calls of an
\* operation.
MaxFail == 2

\* The caller makes at most MaxCalls calls on the instance constructed.
MaxCalls == 3

----------------------------------------------------------------------------
(* Python values *)

None == [tag |-> "None"]
Num(n) == [tag |-> "num", v |-> n]
List(s) == [tag |-> "list", v |-> s]
Unset == [tag |-> "unset"]
Str(x) == [tag |-> "str", v |-> x]
Bool(b) == [tag |-> "bool", v |-> b]
\* A non-negative integer of up to 32 bits, hi * 2^16 + lo, kept as its two
\* 16-bit halves
Num32(hi, lo) == [tag |-> "num32", hi |-> hi, lo |-> lo]

Revisions == {"A", "B"}
Repeatabilities == {"high", "medium", "low"}
Rates == {5, 10, 20, 40, 100}
Modes == {"Idle", "Periodic", "AcceleratedResponse"}

----------------------------------------------------------------------------
(* Bit operations on Python's unbounded non-negative integers *)

RECURSIVE Xor(_, _)
Xor(a, b) ==
    IF a = 0 THEN b
    ELSE IF b = 0 THEN a
    ELSE (((a % 2) + (b % 2)) % 2) + 2 * Xor(a \div 2, b \div 2)

\* x & 0x80
And80(x) == IF (x \div 128) % 2 = 1 THEN 128 ELSE 0

\* x & 0xFF
AndFF(x) == x % 256

\* (hi << 8) | lo for two bytes
Word16(hi, lo) == hi * 256 + lo

----------------------------------------------------------------------------
(* Checksum: SHT85.crc8 of both revisions *)

\* rev A, one pass of the inner loop body, n times
RECURSIVE crc8_A_bits(_, _)
crc8_A_bits(crc, n) ==
    IF n = 0 THEN crc
    ELSE LET bit == And80(crc)
             shifted == crc * 2
         IN crc8_A_bits(IF bit # 0 THEN Xor(shifted, 305) ELSE shifted, n - 1)

\* rev A, the eight passes of the inner loop for each register value that
\* can enter it (the register is a byte XORed with a byte)
crc8_A_byte == [crc \in 0..255 |-> crc8_A_bits(crc, 8)]

\* rev A, the outer loop over the buffer starting at index i
RECURSIVE crc8_A_bytes(_, _, _)
crc8_A_bytes(crc, buffer, i) ==
    IF i > Len(buffer) THEN crc
    ELSE crc8_A_bytes(Xor(crc8_A_byte[Xor(crc, buffer[i])], 0), buffer, i + 1)

crc8_A(buffer) == Num(crc8_A_bytes(255, buffer, 1))

\* rev B, the inner loop: the register is not masked while shifting
RECURSIVE crc8_B_bits(_, _)
crc8_B_bits(crc, n) ==
    IF n = 0 THEN crc
    ELSE crc8_B_bits(IF And80(crc) # 0 THEN Xor(crc * 2, 49) ELSE crc * 2, n - 1)

\* rev B, the eight passes of the inner loop for each register value that
\* can enter it
crc8_B_byte == [crc \in 0..255 |-> crc8_B_bits(crc, 8)]

\* rev B: the return statement sits inside the loop over the buffer, so the
\* function returns after the first byte; an empty buffer falls off the end.
crc8_B(buffer) ==
    IF Len(buffer) = 0 THEN None
    ELSE Num(AndFF(crc8_B_byte[Xor(255, buffer[1])]))

crc8(r, buffer) == IF r = "A" THEN crc8_A(buffer) ELSE crc8_B(buffer)

----------------------------------------------------------------------------
(* Unit conversion: conversion_utils.py and the copies in src/sht85.py *)

\* round(num / den) for num >= 0 and den > 0, to the nearest integer.  None
\* of the quotients below is an exact tie, so the tie rule does not matter.
RoundDiv(num, den) ==
    (num \div den) + (IF 2 * (num % den) >= den THEN 1 ELSE 0)

\* temp with the offset -40 in place of -45
temp_offset40(temp_digital) == RoundDiv(17500 * temp_digital, 65535) - 4000

\* round(-45 + 175 * temp_digital / (2**16 - 1), 2), in 1/100 degree
temp(temp_digital) == RoundDiv(17500 * temp_digital, 65535) - 4500

\* relative_humidity without the replacement of values below 0.01
relative_humidity_unclamped(rh_digital) ==
    10 * RoundDiv(10000 * rh_digital, 65535)

\* round(100 * rh_digital / (2**16 - 1), 2), then 1e-3 if below 0.01;
\* in 1/1000 percent
relative_humidity(rh_digital) ==
    LET rh_analog == RoundDiv(10000 * rh_digital, 65535)
    IN IF rh_analog < 1 THEN 1 ELSE 10 * rh_analog

\* MC[t_range]: beta in 1/100, lambda in 1/100 degree
MC(t_range) ==
    IF t_range = "water" THEN [beta |-> 1762, lambda |-> 24312]
    ELSE [beta |-> 2246, lambda |-> 27262]

\* dew_point with the water coefficients for t > 0 only
dew_point_strict(tc, rhm) ==
    LET t_range == IF tc > 0 THEN "water" ELSE "ice"
    IN [tag |-> "dew_point", t_range |-> t_range, coeff |-> MC(t_range),
        t |-> tc, rh |-> rhm]

\* The Magnus formula needs a logarithm; the model keeps the coefficient set
\* the code selects and the two arguments, and leaves the value symbolic.
dew_point(tc, rhm) ==
    LET t_range == IF tc >= 0 THEN "water" ELSE "ice"
    IN [tag |-> "dew_point", t_range |-> t_range, coeff |-> MC(t_range),
        t |-> tc, rh |-> rhm]

\* The exception dew_point(t, rh) raises, if any, in the order the function
\* computes: c1 divides by lambda + t, c2 is math.log(rh / 100.0), dew_p
\* divides by beta - c2 - c1.  With rh <= 100 the logarithm c2 is <= 0, and
\* with lambda + t > 0 the difference beta - c1 is beta * lambda /
\* (lambda + t) > 0, so the last divisor is positive; for other arguments
\* its sign is not decided here.
dew_point_exc(tc, rhm) ==
    LET coeff == dew_point(tc, rhm).coeff
    IN IF coeff.lambda + tc = 0 THEN "ZeroDivisionError"
       ELSE IF rhm <= 0 THEN "ValueError"
       ELSE IF rhm <= 100000 /\ coeff.lambda + tc > 0 /\ coeff.beta > 0
       THEN "none"
       ELSE "undetermined"

\* The keys of the dict WT
WT_keys == {"high", "medium", "low"}

\* WT[rep], in microseconds
WT(r) == IF r = "high" THEN 16000 ELSE IF r = "medium" THEN 7000 ELSE 5000

\* A command as the driver hands it to the write wrapper: an int (rev B, from
\* the lookup table) or a list of two bytes (rev A, literals in the class).
IntCmd(w) == [tag |-> "int", v |-> w]
ListCmd(msb, lsb) == [tag |-> "list", v |-> <<msb, lsb>>]

\* [int(hex(b), 0) for b in divmod(cmd, 0x100)]: divmod is defined for an
\* int and raises TypeError for a list.
hex_to_bytes(cmd) ==
    IF cmd.tag = "int"
    THEN [exc |-> "none", v |-> <<cmd.v \div 256, cmd.v % 256>>]
    ELSE [exc |-> "TypeError", v |-> <<>>]

----------------------------------------------------------------------------
(* The command words *)

\* rev B reads every command word from self._lut, loaded from
\* sht85_cmd_register_lut.yaml.  The words are those of the rev A literals.
lut ==
    [address |-> 68,
     read |-> 0,
     sn |-> 13954,
     status |-> 62253,
     single_shot |-> [high |-> 9216, medium |-> 9227, low |-> 9238],
     periodic |->
        [r \in Rates |->
            IF r = 5 THEN [high |-> 8242, medium |-> 8228, low |-> 8239]
            ELSE IF r = 10 THEN [high |-> 8496, medium |-> 8486, low |-> 8493]
            ELSE IF r = 20 THEN [high |-> 8758, medium |-> 8736, low |-> 8747]
            ELSE IF r = 40 THEN [high |-> 9012, medium |-> 8994, low |-> 9001]
            ELSE [high |-> 10039, medium |-> 10017, low |-> 10026]],
     fetch |-> 57344,
     acc_resp_time |-> 11058,
     stop |-> 12435,
     soft_reset |-> 12450,
     heater |-> [enable |-> 12397, disable |-> 12390],
     clear_status |-> 12353]

\* rev A: the keys of rep_code, and of each inner dict of periodic_code
rep_code_keys == {"high", "medium", "low"}

\* rev A: the keys of periodic_code (0.5, 1, 2, 4, 10 Hz)
periodic_code_keys == {5, 10, 20, 40, 100}

\* rev A: rep_code in single_shot
rep_code(r) ==
    IF r = "high" THEN ListCmd(36, 0)
    ELSE IF r = "medium" THEN ListCmd(36, 11)
    ELSE ListCmd(36, 22)

\* rev A: periodic_code in periodic
periodic_code(m, r) ==
    LET msb == IF m = 5 THEN 32 ELSE IF m = 10 THEN 33 ELSE IF m = 20 THEN 34
               ELSE IF m = 40 THEN 35 ELSE 39
        lsb == IF m = 5 THEN [high |-> 50, medium |-> 36, low |-> 47]
               ELSE IF m = 10 THEN [high |-> 48, medium |-> 38, low |-> 45]
               ELSE IF m = 20 THEN [high |-> 54, medium |-> 32, low |-> 43]
               ELSE IF m = 40 THEN [high |-> 52, medium |-> 34, low |-> 41]
               ELSE [high |-> 55, medium |-> 33, low |-> 42]
    IN ListCmd(msb, lsb[r])

\* rev A: self._addr set by the constructor
addr == 68

----------------------------------------------------------------------------
(* The bus adapter and the sensor behind it *)

WriteTx(a, reg, dat) ==
    [kind |-> "write", addr |-> a, register |-> reg, bytes |-> dat,
     length |-> 0, us |-> 0, ok |-> TRUE]
ReadTx(a, reg, n, resp) ==
    [kind |-> "read", addr |-> a, register |-> reg, bytes |-> resp,
     length |-> n, us |-> 0, ok |-> TRUE]
WriteByteTx(a, value) ==
    [kind |-> "write_byte", addr |-> a, register |-> 0, bytes |-> <<value>>,
     length |-> 0, us |-> 0, ok |-> TRUE]
SleepEv(d) ==
    [kind |-> "sleep", addr |-> 0, register |-> 0, bytes |-> <<>>,
     length |-> 0, us |-> d, ok |-> TRUE]

\* An adapter call that ended in a transport error
Failed(tx) == [tx EXCEPT !.ok = FALSE]

IsBusTx(e) == e.kind \in {"write", "read", "write_byte"}

PeriodicWords ==
    {lut.periodic[m][r] : m \in Rates, r \in Repeatabilities}

\* The mode of the sensor after it received the command word made of bytes
\* b: a mode-entry command is obeyed in Idle and ignored otherwise, break
\* and soft reset lead to Idle, every other command leaves the mode alone.
SensorModeAfter(m, b) ==
    LET w == Word16(b[1], b[2])
    IN IF w = lut.stop \/ w = lut.soft_reset THEN "Idle"
       ELSE IF m = "Idle" /\ w \in PeriodicWords THEN "Periodic"
       ELSE IF m = "Idle" /\ w = lut.acc_resp_time THEN "AcceleratedResponse"
       ELSE m

\* The world an operation runs in: the fields of the instance it may assign,
\* the sensor's mode, and what the call has done and produced so far.
\* failAt is the adapter call of the operation that ends in a transport error
\* (0: none does).
World ==
    [data |-> data, t |-> t, rh |-> rh, dp |-> dp, handle |-> handle,
     mode |-> mode, busLog |-> <<>>, warns |-> <<>>, shown |-> shown,
     ret |-> None, exc |-> "none", failAt |-> 0]

WorldFailing(n) == [World EXCEPT !.failAt = n]

\* The adapter call the world is about to make is the one that fails
Fails(w) == w.failAt = Len(SelectSeq(w.busLog, IsBusTx)) + 1

\* An adapter call tx: on a handle that was closed the adapter has no file
\* descriptor left and raises TypeError before anything reaches the bus;
\* otherwise the call raises the transport error, or goes through
adapter_call(w, tx) ==
    IF w.handle = "closed" THEN [w EXCEPT !.exc = "TypeError", !.ret = None]
    ELSE IF Fails(w)
    THEN [w EXCEPT !.busLog = Append(@, Failed(tx)), !.exc = "OSError",
                   !.ret = None]
    ELSE [w EXCEPT !.busLog = Append(@, tx)]

\* bus.write_i2c_block_data(addr, register, data)
bus_write(w, a, reg, dat) ==
    LET w1 == adapter_call(w, WriteTx(a, reg, dat))
    IN IF w1.exc # "none" THEN w1
       ELSE [w1 EXCEPT !.mode = SensorModeAfter(@, <<reg>> \o dat)]

\* bus.read_i2c_block_data(addr, register, length), the sensor answering resp
bus_read(w, a, reg, n, resp) ==
    adapter_call(w, ReadTx(a, reg, n, IF Fails(w) THEN <<>> ELSE resp))

\* bus.write_byte(addr, value); the general call reset (address 0, value 6)
\* resets the sensor, which is idle afterwards
bus_write_byte(w, a, value) ==
    LET w1 == adapter_call(w, WriteByteTx(a, value))
    IN IF w1.exc # "none" THEN w1
       ELSE [w1 EXCEPT !.mode = IF a = 0 /\ value = 6 THEN "Idle" ELSE @]

\* time.sleep(seconds)
sleep(w, d) == [w EXCEPT !.busLog = Append(@, SleepEv(d))]

\* warnings.warn(message).  No warning filter is configured anywhere, so
\* Python's default action applies: a text is shown the first time its
\* warn statement issues it and is dropped from then on, for the life of
\* the process (each text below belongs to one statement).
warn(w, msg) ==
    IF msg \in w.shown THEN w
    ELSE [w EXCEPT !.warns = Append(@, msg), !.shown = @ \cup {msg}]

\* logger.warning(message): the root logger of log_utils.get_logger, level
\* INFO, emits every record
log_warning(w, msg) == [w EXCEPT !.warns = Append(@, msg)]

raise(w, e) == [w EXCEPT !.exc = e, !.ret = None]

----------------------------------------------------------------------------
(* rev A: class SHT (src/sht.py) *)

\* SHT.write_i2c_block_data_sht(cmd)
write_i2c_block_data_sht(w, cmd) ==
    LET b == hex_to_bytes(cmd)
    IN IF b.exc # "none" THEN raise(w, b.exc)
       ELSE LET w1 == bus_write(w, addr, b.v[1], SubSeq(b.v, 2, Len(b.v)))
            IN IF w1.exc # "none" THEN w1
               ELSE IF rep \notin WT_keys THEN raise(w1, "KeyError")
               ELSE sleep(w1, WT(rep))

\* SHT.read_i2c_block_data_sht(length): the appended transaction holds the
\* bytes returned
read_i2c_block_data_sht(w, n, resp) == bus_read(w, addr, 0, n, resp)

\* (b0 << 24) + (b1 << 16) + (b3 << 8) + b4 for four bytes
shift_sum(b0, b1, b3, b4) == Num32(b0 * 256 + b1, b3 * 256 + b4)

\* SHT.check_crc(kw), on self.data
check_crc_A(w, kw) ==
    LET d == w.data.v
        w1 == IF Num(d[3]) # crc8_A(SubSeq(d, 1, 2))
              THEN warn(w, IF kw = "data"
                           THEN "CRC Error in temperature measurement!"
                           ELSE "CRC Error in the first word!")
              ELSE w
    IN IF Num(d[6]) # crc8_A(SubSeq(d, 4, 5))
       THEN warn(w1, IF kw = "data"
                     THEN "CRC Error in relative humidity measurement!"
                     ELSE "CRC Error in the second word!")
       ELSE w1

\* The wrapper SHT.calculate_crc puts around a method: w is the world the
\* method left.  The method's result is dropped; the wrapper returns None.
calculate_crc(w, kw) ==
    IF w.exc # "none" THEN w
    ELSE IF check_crc_bool = Unset THEN raise(w, "AttributeError")
    ELSE LET w1 == IF check_crc_bool.v THEN check_crc_A(w, kw) ELSE w
         IN [w1 EXCEPT !.ret = None]

\* SHT._sn(cmd), the wrapped method body
sn_body_A(w, cmd, resp) ==
    LET w1 == write_i2c_block_data_sht(w, cmd)
    IN IF w1.exc # "none" THEN w1
       ELSE LET r == read_i2c_block_data_sht(w1, 6, resp)
                w2 == [r EXCEPT !.data = List(resp)]
                d == w2.data.v
            IN IF r.exc # "none" THEN r
               ELSE [w2 EXCEPT !.ret = shift_sum(d[1], d[2], d[4], d[5])]

\* SHT85.sn (rev A): self._sn(cmd=[0x36, 0x82]) through the wrapper
sn_A(w, resp) == calculate_crc(sn_body_A(w, ListCmd(54, 130), resp), "sn")

----------------------------------------------------------------------------
(* Status register, both revisions *)

StatusKeys ==
    {"Checksum status", "Command status", "System reset", "T tracking alert",
     "RH tracking alert", "Heater status", "Alert pending status"}

\* f'{status:016b}': the 16 characters, most significant bit first
status_to_bit(status) ==
    [i \in 1..16 |-> IF (status \div (2 ^ (16 - i))) % 2 = 1 THEN "1" ELSE "0"]

\* status_dict: Python index k of the string is index k + 1 here
status_dict(status_read) ==
    LET status == Word16(status_read[1], status_read[2])
        bits == status_to_bit(status)
    IN [tag |-> "dict",
        v |-> [k \in StatusKeys |->
                 IF k = "Checksum status" THEN bits[1]
                 ELSE IF k = "Command status" THEN bits[2]
                 ELSE IF k = "System reset" THEN bits[5]
                 ELSE IF k = "T tracking alert" THEN bits[11]
                 ELSE IF k = "RH tracking alert" THEN bits[12]
                 ELSE IF k = "Heater status" THEN bits[14]
                 ELSE bits[16]]]

\* SHT85.status (rev A)
status_A(w, resp) ==
    LET w1 == write_i2c_block_data_sht(w, ListCmd(243, 45))
    IN IF w1.exc # "none" THEN w1
       ELSE LET r == read_i2c_block_data_sht(w1, 3, resp)
            IN IF r.exc # "none" THEN r
               ELSE [r EXCEPT !.ret = status_dict(resp)]

\* The keys of the dict status returns, in the order they are inserted
StatusOrder ==
    <<"Checksum status", "Command status", "System reset", "T tracking alert",
      "RH tracking alert", "Heater status", "Alert pending status">>

\* default_status_dict of check_status_for_non_default, by revision
default_status_dict(r) ==
    [k \in StatusKeys |->
        IF r = "B" /\ k \in {"System reset", "Alert pending status"}
        THEN "1" ELSE "0"]

\* The message check_status_for_non_default emits for key k, by revision
\* (the two long ones abridged)
status_message(r, k) ==
    IF k = "Checksum status" THEN "Checksum of last write transfer failed!"
    ELSE IF k = "Command status" THEN "Last command not processed!"
    ELSE IF k = "System reset" THEN "no reset detected since last clear!"
    ELSE IF k = "T tracking alert" THEN "T tracking alert!"
    ELSE IF k = "RH tracking alert" THEN "RH tracking alert!"
    ELSE IF k = "Heater status" THEN "Heater is ON!"
    ELSE IF r = "A" THEN "At least one pending alert!"
    ELSE "No pending alerts!"

\* The loop over non_default_status_dict from key number i on.  rev A
\* reports through logger.warning, and calls logger.warningn for the heater
\* key, a method the logger does not have; rev B reports through
\* warnings.warn.
RECURSIVE report_non_default(_, _, _, _)
report_non_default(w, r, st, i) ==
    IF i > Len(StatusOrder) \/ w.exc # "none" THEN w
    ELSE LET k == StatusOrder[i]
         IN IF st[k] = default_status_dict(r)[k]
            THEN report_non_default(w, r, st, i + 1)
            ELSE IF r = "A" /\ k = "Heater status"
            THEN raise(w, "AttributeError")
            ELSE report_non_default(
                     IF r = "A" THEN log_warning(w, status_message(r, k))
                     ELSE warn(w, status_message(r, k)), r, st, i + 1)

\* SHT85.check_status_for_non_default (rev A)
check_status_for_non_default_A(w, resp) ==
    LET w1 == status_A(w, resp)
    IN IF w1.exc # "none" THEN w1
       ELSE report_non_default([w1 EXCEPT !.ret = None], "A", w1.ret.v, 1)

----------------------------------------------------------------------------
(* rev A: class SHT85 (src/sht85/sht85.py) *)

\* SHT.__init__(cmd_register_lut_yaml, bus), called with the positional
\* arguments args: the lookup table is loaded, the bus number is checked,
\* then the bus is opened.
SHT_init(w, args) ==
    IF Len(args) # 2 THEN raise(w, "TypeError")
    ELSE IF args[2] \in {0, 2} THEN raise(w, "AssertionError")
    ELSE [w EXCEPT !.handle = "open"]

\* SHT85.__init__ (rev A) with the lookup-table name handed to
\* SHT.__init__ ahead of the bus number
SHT85_init_A_lut_passed(w, b, r, m) ==
    LET w1 == SHT_init(w, <<"sht85_cmd_register_lut.yaml", b>>)
    IN IF w1.exc # "none" THEN w1
       ELSE IF r \notin {"high", "medium", "low"} THEN raise(w1, "AssertionError")
       ELSE IF m \notin {5, 10, 20, 40, 100} THEN raise(w1, "AssertionError")
       ELSE w1

\* SHT85.__init__(bus, rep, mps) (rev A): super().__init__(bus) hands one
\* argument to SHT.__init__; rep and mps are checked after it returns.
SHT85_init_A(w, b, r, m) ==
    LET w1 == SHT_init(w, <<b>>)
    IN IF w1.exc # "none" THEN w1
       ELSE IF r \notin {"high", "medium", "low"} THEN raise(w1, "AssertionError")
       ELSE IF m \notin {5, 10, 20, 40, 100} THEN raise(w1, "AssertionError")
       ELSE w1

\* SHT85.close (rev A): self.bus.close()
close_A(w) == [w EXCEPT !.handle = "closed"]

\* SHT85.__enter__ (rev A)
enter_A(w) == w

\* SHT85.__exit__ (rev A), declared with self alone, called with nargs
\* further arguments
exit_A(w, nargs) == IF nargs # 0 THEN raise(w, "TypeError") ELSE close_A(w)

\* The statement "with instance: body" (rev A): __enter__, the body, which
\* raises or not, then __exit__ with the three exception arguments
with_A(w, body) ==
    LET w1 == exit_A(enter_A(w), 3)
    IN IF w1.exc # "none" THEN w1
       ELSE IF body = "raises" THEN raise(w1, "BodyError")
       ELSE w1

\* SHT.general_call_reset (rev A)
general_call_reset_A(w) == bus_write_byte(w, 0, 6)

\* SHT.interface_reset(addr) (rev A), the loop from pass i on: nine times
\* write_byte(addr, 0xFF) and a sleep of 10 ms
RECURSIVE toggle_sda(_, _, _)
toggle_sda(w, a, i) ==
    IF i > 9 \/ w.exc # "none" THEN w
    ELSE LET w1 == bus_write_byte(w, a, 255)
         IN IF w1.exc # "none" THEN w1
            ELSE toggle_sda(sleep(w1, 10000), a, i + 1)

\* SHT.interface_reset(addr) (rev A)
interface_reset_A(w, a) ==
    LET w1 == toggle_sda(w, a, 1)
        w2 == IF w1.exc # "none" THEN w1 ELSE bus_write_byte(w1, a, 53)
    IN IF w2.exc # "none" THEN w2 ELSE bus_write_byte(w2, a, 23)

\* SHT85.read_data, the wrapped method body
read_data_body_A(w, resp) ==
    LET r == read_i2c_block_data_sht(w, 6, resp)
        w1 == [r EXCEPT !.data = List(resp)]
        d == w1.data.v
        temp_digital == Word16(d[1], d[2])
        rh_digital == Word16(d[4], d[5])
        tv == temp(temp_digital)
        rhv == relative_humidity(rh_digital)
        w2 == [w1 EXCEPT !.t = Num(tv), !.rh = Num(rhv)]
    IN IF r.exc # "none" THEN r
       ELSE IF dew_point_exc(tv, rhv) # "none"
       THEN raise(w2, dew_point_exc(tv, rhv))
       ELSE [w2 EXCEPT !.dp = dew_point(tv, rhv)]

\* SHT85.read_data (rev A), through the wrapper
read_data_A(w, resp) == calculate_crc(read_data_body_A(w, resp), "data")

\* SHT85.single_shot (rev A)
single_shot_A(w, resp) ==
    IF rep \notin rep_code_keys THEN raise(w, "KeyError")
    ELSE LET w1 == write_i2c_block_data_sht(w, rep_code(rep))
         IN IF w1.exc # "none" THEN w1
            ELSE [read_data_A(w1, resp) EXCEPT !.ret = None]

\* The wrapper printer puts around a method: the result is dropped
printer(w) == IF w.exc # "none" THEN w ELSE [w EXCEPT !.ret = None]

periodic_A(w) ==
    IF mps \notin periodic_code_keys \/ rep \notin rep_code_keys
    THEN raise(w, "KeyError")
    ELSE printer(write_i2c_block_data_sht(w, periodic_code(mps, rep)))
fetch_A(w) == printer(write_i2c_block_data_sht(w, ListCmd(224, 0)))
art_A(w) == printer(write_i2c_block_data_sht(w, ListCmd(43, 50)))
stop_A(w) == printer(write_i2c_block_data_sht(w, ListCmd(48, 147)))

\* SHT85.reset (rev A): self.stop(), then the soft reset command
reset_A(w) ==
    LET w1 == stop_A(w)
    IN IF w1.exc # "none" THEN w1
       ELSE printer(write_i2c_block_data_sht(w1, ListCmd(48, 162)))

\* SHT85.enable_heater (rev A) announces itself at warning level
enable_heater_A(w) ==
    printer(write_i2c_block_data_sht(log_warning(w, "Enabling heater..."),
                                     ListCmd(48, 109)))
disable_heater_A(w) == printer(write_i2c_block_data_sht(w, ListCmd(48, 102)))
clear_status_A(w) == printer(write_i2c_block_data_sht(w, ListCmd(48, 65)))

\* rev A has no heater(heat)
heater_A(w, heat) == raise(w, "AttributeError")

----------------------------------------------------------------------------
(* rev B: class SHT85 (src/sht85.py) *)

\* hex_bytes(cmd), the rev B copy of hex_to_bytes
hex_bytes(cmd) == hex_to_bytes(cmd)

\* write_i2c_block_data_sht85 repeating a write that failed
write_i2c_block_data_sht85_retry(w, cmd) ==
    LET b == hex_bytes(cmd)
    IN IF b.exc # "none" THEN raise(w, b.exc)
       ELSE LET w0 == bus_write(w, lut.address, b.v[1],
                                SubSeq(b.v, 2, Len(b.v)))
                w1 == IF w0.exc = "none" THEN w0
                      ELSE bus_write([w0 EXCEPT !.exc = "none"], lut.address,
                                     b.v[1], SubSeq(b.v, 2, Len(b.v)))
            IN IF w1.exc # "none" THEN w1
               ELSE IF rep \notin WT_keys THEN raise(w1, "KeyError")
               ELSE sleep(w1, WT(rep))

\* write_i2c_block_data_sht85 without the sleep
write_i2c_block_data_sht85_no_sleep(w, cmd) ==
    LET b == hex_bytes(cmd)
    IN IF b.exc # "none" THEN raise(w, b.exc)
       ELSE LET w1 == bus_write(w, lut.address, b.v[1],
                                SubSeq(b.v, 2, Len(b.v)))
            IN IF w1.exc # "none" THEN w1
               ELSE IF rep \notin WT_keys THEN raise(w1, "KeyError")
               ELSE w1

\* SHT85.write_i2c_block_data_sht85(cmd)
write_i2c_block_data_sht85(w, cmd) ==
    LET b == hex_bytes(cmd)
    IN IF b.exc # "none" THEN raise(w, b.exc)
       ELSE LET w1 == bus_write(w, lut.address, b.v[1],
                                SubSeq(b.v, 2, Len(b.v)))
            IN IF w1.exc # "none" THEN w1
               ELSE IF rep \notin WT_keys THEN raise(w1, "KeyError")
               ELSE sleep(w1, WT(rep))

\* SHT85.read_i2c_block_data_sht85(length)
read_i2c_block_data_sht85(w, n, resp) ==
    bus_read(w, lut.address, lut.read, n, resp)

\* SHT85.check_crc(buffer, kw) (rev B)
check_crc_B(w, buffer, kw) ==
    LET w1 == IF Num(buffer[3]) # crc8_B(SubSeq(buffer, 1, 2))
              THEN warn(w, IF kw = "data"
                           THEN "CRC Error in temperature measurement!"
                           ELSE "CRC Error in the first word!")
              ELSE w
    IN IF Num(buffer[6]) # crc8_B(SubSeq(buffer, 4, 5))
       THEN warn(w1, IF kw = "data"
                     THEN "CRC Error in relative humidity measurement!"
                     ELSE "CRC Error in the second word!")
       ELSE w1

\* SHT85.sn (rev B)
sn_B(w, resp) ==
    LET w1 == write_i2c_block_data_sht85(w, IntCmd(lut.sn))
    IN IF w1.exc # "none" THEN w1
       ELSE LET buffer == resp
                r == read_i2c_block_data_sht85(w1, 6, resp)
                w2 == check_crc_B(r, buffer, "sn")
            IN IF r.exc # "none" THEN r
               ELSE [w2 EXCEPT !.ret =
                        shift_sum(buffer[1], buffer[2], buffer[4], buffer[5])]

\* SHT85.status (rev B)
status_B(w, resp) ==
    LET w1 == write_i2c_block_data_sht85(w, IntCmd(lut.status))
    IN IF w1.exc # "none" THEN w1
       ELSE LET r == read_i2c_block_data_sht85(w1, 3, resp)
            IN IF r.exc # "none" THEN r
               ELSE [r EXCEPT !.ret = status_dict(resp)]

\* read_data (rev B) giving up at a checksum mismatch, between storing rh
\* and storing dp
read_data_B_abort_on_fault(w, resp) ==
    LET w1 == read_i2c_block_data_sht85(w, 6, resp)
        temp_digital == Word16(resp[1], resp[2])
        rh_digital == Word16(resp[4], resp[5])
        tv == temp(temp_digital)
        rhv == relative_humidity(rh_digital)
        w2 == check_crc_B([w1 EXCEPT !.t = Num(tv), !.rh = Num(rhv)],
                          resp, "data")
    IN IF w1.exc # "none" THEN w1
       ELSE IF w2.warns # w1.warns THEN raise(w2, "UserWarning")
       ELSE [w2 EXCEPT !.dp = dew_point(tv, rhv), !.ret = None]

\* SHT85.read_data (rev B): data is a local, the checksums are checked
\* after t and rh are stored and before dp is
read_data_B(w, resp) ==
    LET w1 == read_i2c_block_data_sht85(w, 6, resp)
        temp_digital == Word16(resp[1], resp[2])
        rh_digital == Word16(resp[4], resp[5])
        tv == temp(temp_digital)
        rhv == relative_humidity(rh_digital)
        w2 == check_crc_B([w1 EXCEPT !.t = Num(tv), !.rh = Num(rhv)],
                          resp, "data")
    IN IF w1.exc # "none" THEN w1
       ELSE IF dew_point_exc(tv, rhv) # "none"
       THEN raise(w2, dew_point_exc(tv, rhv))
       ELSE [w2 EXCEPT !.dp = dew_point(tv, rhv), !.ret = None]

\* SHT85.single_shot (rev B)
single_shot_B(w, resp) ==
    IF rep \notin DOMAIN lut.single_shot THEN raise(w, "KeyError")
    ELSE LET w1 == write_i2c_block_data_sht85(w, IntCmd(lut.single_shot[rep]))
         IN IF w1.exc # "none" THEN w1 ELSE read_data_B(w1, resp)

periodic_B(w) ==
    IF mps \notin DOMAIN lut.periodic THEN raise(w, "KeyError")
    ELSE IF rep \notin DOMAIN lut.periodic[mps] THEN raise(w, "KeyError")
    ELSE printer(write_i2c_block_data_sht85(w, IntCmd(lut.periodic[mps][rep])))
fetch_B(w) == printer(write_i2c_block_data_sht85(w, IntCmd(lut.fetch)))
art_B(w) == printer(write_i2c_block_data_sht85(w, IntCmd(lut.acc_resp_time)))
stop_B(w) == printer(write_i2c_block_data_sht85(w, IntCmd(lut.stop)))

\* SHT85.reset (rev B)
reset_B(w) ==
    LET w1 == stop_B(w)
    IN IF w1.exc # "none" THEN w1
       ELSE printer(write_i2c_block_data_sht85(w1, IntCmd(lut.soft_reset)))

\* SHT85.heater(heat) (rev B), the method under its decorator
heater_body_B(w, heat) ==
    IF heat \notin DOMAIN lut.heater THEN raise(w, "AssertionError")
    ELSE write_i2c_block_data_sht85(w, IntCmd(lut.heater[heat]))

\* instance.heater, as the wrapper of printer receives the call,
\* wrapper(self, **kwargs): heater('enable') hands the wrapper a second
\* positional argument, TypeError before the method is entered;
\* heater(heat='enable') passes heat on; heater() leaves heat at its
\* default 'enable'
heater_B(w, heat, form) ==
    IF form = "positional" THEN raise(w, "TypeError")
    ELSE printer(heater_body_B(w, IF form = "default" THEN "enable" ELSE heat))

\* SHT85.clear (rev B)
clear_B(w) == printer(write_i2c_block_data_sht85(w, IntCmd(lut.clear_status)))

\* SHT85.check_status_for_non_default (rev B)
check_status_for_non_default_B(w, resp) ==
    LET w1 == status_B(w, resp)
    IN IF w1.exc # "none" THEN w1
       ELSE report_non_default([w1 EXCEPT !.ret = None], "B", w1.ret.v, 1)

\* SHT85.general_call_reset (rev B): the lookup of the command word, then
\* bus.write_i2c_block_data with that one argument, which the adapter's
\* signature rejects
general_call_reset_B(w) ==
    IF "general_call_reset" \notin DOMAIN lut THEN raise(w, "KeyError")
    ELSE raise(w, "TypeError")

\* SHT85.__init__ (rev B) with the bus opened ahead of the checks
SHT85_init_B_opens_first(w, b, r, m) ==
    LET w1 == [w EXCEPT !.handle = "open"]
    IN IF b \in {0, 2} THEN raise(w1, "AssertionError")
       ELSE IF r \notin DOMAIN lut.single_shot THEN raise(w1, "AssertionError")
       ELSE IF m \notin DOMAIN lut.periodic THEN raise(w1, "AssertionError")
       ELSE w1

\* SHT85.__init__(bus, rep, mps) (rev B): the lookup table is loaded, the
\* three arguments are checked, then the bus is opened.
SHT85_init_B(w, b, r, m) ==
    IF b \in {0, 2} THEN raise(w, "AssertionError")
    ELSE IF r \notin DOMAIN lut.single_shot THEN raise(w, "AssertionError")
    ELSE IF m \notin DOMAIN lut.periodic THEN raise(w, "AssertionError")
    ELSE [w EXCEPT !.handle = "open"]

\* rev B defines no close, __enter__ or __exit__: the attribute lookup fails
close_B(w) == raise(w, "AttributeError")

\* The statement "with instance: body" (rev B): the lookup of __enter__
\* fails, with AttributeError or TypeError depending on the interpreter
with_B(w, e) == raise(w, e)

\* rev B has no interface_reset
interface_reset_B(w, a) == raise(w, "AttributeError")

\* rev B has no enable_heater and no disable_heater
enable_heater_B(w) == raise(w, "AttributeError")
disable_heater_B(w) == raise(w, "AttributeError")

----------------------------------------------------------------------------
(* What the sensor may answer *)

\* The checksum of section 4.1 of the specification and of the sensor's
\* datasheet: CRC-8, polynomial 0x31, initial value 0xFF, over all bytes.
RECURSIVE ChecksumBits(_, _)
ChecksumBits(crc, n) ==
    IF n = 0 THEN crc
    ELSE ChecksumBits(IF crc >= 128 THEN Xor((crc * 2) % 256, 49)
                      ELSE (crc * 2) % 256, n - 1)

ChecksumByte == [crc \in 0..255 |-> ChecksumBits(crc, 8)]

RECURSIVE ChecksumFrom(_, _, _)
ChecksumFrom(crc, bytes, i) ==
    IF i > Len(bytes) THEN crc
    ELSE ChecksumFrom(ChecksumByte[Xor(crc, bytes[i])], bytes, i + 1)

Checksum(bytes) == ChecksumFrom(255, bytes, 1)

SampleWord(i) ==
    IF i = 1 THEN <<0, 0>>
    ELSE IF i = 2 THEN <<190, 239>>
    ELSE IF i = 3 THEN <<255, 255>>
    ELSE <<(i * 37) % 256, (i * 101) % 256>>

SampleWords == {SampleWord(i) : i \in 1..NumWords}

\* A payload word with its right checksum, or with the checksum of its
\* first byte alone
SampleDataWords ==
    UNION {{wd \o <<Checksum(wd)>>, wd \o <<Checksum(<<wd[1]>>)>>}
           : wd \in SampleWords}

\* A word followed by its right checksum (ok) or by the checksum of its
\* first byte alone
DataWord(wd, ok) ==
    wd \o <<IF ok THEN Checksum(wd) ELSE Checksum(<<wd[1]>>)>>

\* Frames of two different sample words, each word with its right or with
\* a wrong checksum
Frames ==
    {DataWord(SampleWord(i), a) \o DataWord(SampleWord((i % NumWords) + 1), b) :
        i \in 1..NumWords, a \in BOOLEAN, b \in BOOLEAN}

----------------------------------------------------------------------------
(* Construction, the instance, and the calls its user makes *)

\* Bus numbers, repeatabilities and rates handed to the constructor
CtorBuses == 0..3

\* The values a caller may pass or assign as rep and mps
AssignableReps == Repeatabilities \cup {"bogus"}
AssignableRates == Rates \cup {3}

CtorArgs ==
    {[tag |-> "ctor", bus |-> b, rep |-> r, mps |-> m] :
        b \in CtorBuses, r \in AssignableReps, m \in AssignableRates}

\* Before the constructor is called: no instance, no attribute assigned, no
\* bus handle, nothing warned yet in the process
Init ==
    /\ rev \in Revisions
    /\ rep = "unassigned"
    /\ mps = 0
    /\ check_crc_bool = Unset
    /\ data = Unset
    /\ t = None
    /\ rh = None
    /\ dp = None
    /\ handle = "none"
    /\ mode = "Idle"
    /\ op = "init"
    /\ arg = None
    /\ busLog = <<>>
    /\ warns = <<>>
    /\ shown = {}
    /\ calls = 0
    /\ ret = None
    /\ exc = "none"

\* The call ran and left the world w
Outcome(w) ==
    /\ data' = w.data
    /\ t' = w.t
    /\ rh' = w.rh
    /\ dp' = w.dp
    /\ handle' = w.handle
    /\ mode' = w.mode
    /\ busLog' = w.busLog
    /\ warns' = w.warns
    /\ shown' = w.shown
    /\ ret' = w.ret
    /\ exc' = w.exc
    /\ UNCHANGED <<rev, rep, mps, check_crc_bool>>

\* The outcome of a call without arguments
Result(w) == Outcome(w) /\ arg' = None

\* The adapter calls of an operation at which a transport error is injected
FailPoints == 1..MaxFail

\* A frame that is never looked at: the read it would answer has failed or
\* is not reached
NoFrame == <<0, 0, 0, 0, 0, 0>>

\* An instance exists: the constructor has returned one.  It stays callable
\* after close().
Constructed == handle # "none"

\* Some adapter call in the log ended in a transport error
HasFailure(log) == \E i \in 1..Len(log) : ~log[i].ok

\* The transport error injected into the call struck
Struck(w) == HasFailure(w.busLog) /\ Result(w)

\* SHT85(a.bus, a.rep, a.mps): the attributes are assigned once every check
\* passed; a call that raises leaves no instance behind
constructed_with(a) ==
    LET w == IF rev = "A"
             THEN SHT85_init_A(World, a.bus, a.rep, a.mps)
             ELSE SHT85_init_B(World, a.bus, a.rep, a.mps)
    IN /\ arg' = a
       /\ handle' = w.handle
       /\ busLog' = w.busLog
       /\ warns' = w.warns
       /\ ret' = w.ret
       /\ exc' = w.exc
       /\ rep' = IF w.exc = "none" THEN a.rep ELSE rep
       /\ mps' = IF w.exc = "none" THEN a.mps ELSE mps
       /\ check_crc_bool' = IF w.exc = "none" /\ rev = "A"
                            THEN Bool(TRUE) ELSE check_crc_bool
       /\ UNCHANGED <<rev, data, t, rh, dp, mode, shown, calls>>

\* The constructor calls of a caller: the call of the test program,
\* SHT85(bus=1, mps=1, rep='high'), and one call for each argument at fault
SampleCtorArgs ==
    {[tag |-> "ctor", bus |-> 1, rep |-> "high", mps |-> 10],
     [tag |-> "ctor", bus |-> 0, rep |-> "high", mps |-> 10],
     [tag |-> "ctor", bus |-> 1, rep |-> "bogus", mps |-> 10],
     [tag |-> "ctor", bus |-> 1, rep |-> "high", mps |-> 3]}

construct ==
    /\ handle = "none"
    /\ op' = "construct"
    /\ \E a \in SampleCtorArgs : constructed_with(a)

\* The caller makes one more call on the instance
Called ==
    /\ Constructed
    /\ calls < MaxCalls
    /\ calls' = calls + 1

\* instance.rep = r, by the caller
set_rep ==
    /\ Called
    /\ op' = "set_rep"
    /\ \E r \in AssignableReps :
           /\ rep' = r
           /\ arg' = Str(r)
    /\ busLog' = <<>>
    /\ warns' = <<>>
    /\ ret' = None
    /\ exc' = "none"
    /\ UNCHANGED <<rev, mps, check_crc_bool, data, t, rh, dp, handle, mode,
                   shown>>

\* instance.mps = m, by the caller
set_mps ==
    /\ Called
    /\ op' = "set_mps"
    /\ \E m \in AssignableRates :
           /\ mps' = m
           /\ arg' = Num(m)
    /\ busLog' = <<>>
    /\ warns' = <<>>
    /\ ret' = None
    /\ exc' = "none"
    /\ UNCHANGED <<rev, rep, check_crc_bool, data, t, rh, dp, handle, mode,
                   shown>>

\* instance.check_crc_bool = b, by the caller.  SHT.__init__ sets the
\* attribute and the wrapper SHT.calculate_crc reads it; on an instance of
\* rev B the assignment creates an attribute nothing reads.
set_check_crc_bool ==
    /\ Called
    /\ op' = "set_check_crc_bool"
    /\ \E b \in BOOLEAN :
           /\ check_crc_bool' = Bool(b)
           /\ arg' = Bool(b)
    /\ busLog' = <<>>
    /\ warns' = <<>>
    /\ ret' = None
    /\ exc' = "none"
    /\ UNCHANGED <<rev, rep, mps, data, t, rh, dp, handle, mode, shown>>

sn ==
    /\ Called
    /\ op' = "sn"
    /\ \/ \E resp \in Frames :
              Result(IF rev = "A" THEN sn_A(World, resp)
                     ELSE sn_B(World, resp))
       \/ \E n \in FailPoints :
              Struck(IF rev = "A" THEN sn_A(WorldFailing(n), NoFrame)
                     ELSE sn_B(WorldFailing(n), NoFrame))

status ==
    /\ Called
    /\ op' = "status"
    /\ \/ \E resp \in SampleDataWords :
              Result(IF rev = "A" THEN status_A(World, resp)
                     ELSE status_B(World, resp))
       \/ \E n \in FailPoints :
              Struck(IF rev = "A" THEN status_A(WorldFailing(n), NoFrame)
                     ELSE status_B(WorldFailing(n), NoFrame))

check_status_for_non_default ==
    /\ Called
    /\ op' = "check_status_for_non_default"
    /\ \/ \E resp \in SampleDataWords :
              Result(IF rev = "A"
                     THEN check_status_for_non_default_A(World, resp)
                     ELSE check_status_for_non_default_B(World, resp))
       \/ \E n \in FailPoints :
              Struck(IF rev = "A"
                     THEN check_status_for_non_default_A(WorldFailing(n),
                                                         NoFrame)
                     ELSE check_status_for_non_default_B(WorldFailing(n),
                                                         NoFrame))

read_data ==
    /\ Called
    /\ op' = "read_data"
    /\ \/ \E resp \in Frames :
              Result(IF rev = "A" THEN read_data_A(World, resp)
                     ELSE read_data_B(World, resp))
       \/ \E n \in FailPoints :
              Struck(IF rev = "A" THEN read_data_A(WorldFailing(n), NoFrame)
                     ELSE read_data_B(WorldFailing(n), NoFrame))

single_shot ==
    /\ Called
    /\ op' = "single_shot"
    /\ \/ \E resp \in Frames :
              Result(IF rev = "A" THEN single_shot_A(World, resp)
                     ELSE single_shot_B(World, resp))
       \/ \E n \in FailPoints :
              Struck(IF rev = "A" THEN single_shot_A(WorldFailing(n), NoFrame)
                     ELSE single_shot_B(WorldFailing(n), NoFrame))

periodic ==
    /\ Called
    /\ op' = "periodic"
    /\ \E n \in {0} \cup FailPoints :
           LET w == IF rev = "A" THEN periodic_A(WorldFailing(n))
                    ELSE periodic_B(WorldFailing(n))
           IN IF n = 0 THEN Result(w) ELSE Struck(w)

fetch ==
    /\ Called
    /\ op' = "fetch"
    /\ \E n \in {0} \cup FailPoints :
           LET w == IF rev = "A" THEN fetch_A(WorldFailing(n))
                    ELSE fetch_B(WorldFailing(n))
           IN IF n = 0 THEN Result(w) ELSE Struck(w)

art ==
    /\ Called
    /\ op' = "art"
    /\ \E n \in {0} \cup FailPoints :
           LET w == IF rev = "A" THEN art_A(WorldFailing(n))
                    ELSE art_B(WorldFailing(n))
           IN IF n = 0 THEN Result(w) ELSE Struck(w)

stop ==
    /\ Called
    /\ op' = "stop"
    /\ \E n \in {0} \cup FailPoints :
           LET w == IF rev = "A" THEN stop_A(WorldFailing(n))
                    ELSE stop_B(WorldFailing(n))
           IN IF n = 0 THEN Result(w) ELSE Struck(w)

reset ==
    /\ Called
    /\ op' = "reset"
    /\ \E n \in {0} \cup FailPoints :
           LET w == IF rev = "A" THEN reset_A(WorldFailing(n))
                    ELSE reset_B(WorldFailing(n))
           IN IF n = 0 THEN Result(w) ELSE Struck(w)

general_call_reset ==
    /\ Called
    /\ op' = "general_call_reset"
    /\ \E n \in {0} \cup FailPoints :
           LET w == IF rev = "A" THEN general_call_reset_A(WorldFailing(n))
                    ELSE general_call_reset_B(WorldFailing(n))
           IN IF n = 0 THEN Result(w) ELSE Struck(w)

interface_reset ==
    /\ Called
    /\ op' = "interface_reset"
    /\ \E n \in {0} \cup FailPoints :
           LET w == IF rev = "A" THEN interface_reset_A(WorldFailing(n), addr)
                    ELSE interface_reset_B(WorldFailing(n), lut.address)
           IN /\ n # 0 => HasFailure(w.busLog)
              /\ Outcome(w)
              /\ arg' = Num(IF rev = "A" THEN addr ELSE lut.address)

enable_heater ==
    /\ Called
    /\ op' = "enable_heater"
    /\ \E n \in {0} \cup FailPoints :
           LET w == IF rev = "A" THEN enable_heater_A(WorldFailing(n))
                    ELSE enable_heater_B(WorldFailing(n))
           IN IF n = 0 THEN Result(w) ELSE Struck(w)

disable_heater ==
    /\ Called
    /\ op' = "disable_heater"
    /\ \E n \in {0} \cup FailPoints :
           LET w == IF rev = "A" THEN disable_heater_A(WorldFailing(n))
                    ELSE disable_heater_B(WorldFailing(n))
           IN IF n = 0 THEN Result(w) ELSE Struck(w)

\* The calls of heater: heater('enable'), heater(heat='enable') and so on,
\* and heater(), which asks for the default 'enable'
HeaterCalls ==
    [heat : {"enable", "disable", "on"}, form : {"positional", "keyword"}]
        \cup {[heat |-> "enable", form |-> "default"]}

heater ==
    /\ Called
    /\ op' = "heater"
    /\ \E c \in HeaterCalls, n \in {0} \cup FailPoints :
           LET w == IF rev = "A" THEN heater_A(WorldFailing(n), c.heat)
                    ELSE heater_B(WorldFailing(n), c.heat, c.form)
           IN /\ n # 0 => HasFailure(w.busLog)
              /\ Outcome(w)
              /\ arg' = [tag |-> "str", v |-> c.heat, form |-> c.form]

clear_status ==
    /\ Called
    /\ op' = "clear_status"
    /\ \E n \in {0} \cup FailPoints :
           LET w == IF rev = "A" THEN clear_status_A(WorldFailing(n))
                    ELSE clear_B(WorldFailing(n))
           IN IF n = 0 THEN Result(w) ELSE Struck(w)

close ==
    /\ Called
    /\ op' = "close"
    /\ Result(IF rev = "A" THEN close_A(World) ELSE close_B(World))

\* with instance: body
with_block ==
    /\ Called
    /\ op' = "with_block"
    /\ \E body \in {"returns", "raises"}, e \in {"AttributeError", "TypeError"} :
           /\ Outcome(IF rev = "A" THEN with_A(World, body)
                      ELSE with_B(World, e))
           /\ arg' = Str(body)

\* The commands a caller hands to the write wrapper: a word, and the same
\* word as a pair of bytes
SampleCmds == {IntCmd(9216), ListCmd(36, 0)}

\* instance.write_i2c_block_data_sht(cmd) (rev A),
\* instance.write_i2c_block_data_sht85(cmd) (rev B), by the caller
write_i2c_block_data ==
    /\ Called
    /\ op' = "write_i2c_block_data"
    /\ \E cmd \in SampleCmds, n \in {0} \cup FailPoints :
           LET w == IF rev = "A"
                    THEN write_i2c_block_data_sht(WorldFailing(n), cmd)
                    ELSE write_i2c_block_data_sht85(WorldFailing(n), cmd)
           IN /\ n # 0 => HasFailure(w.busLog)
              /\ Outcome(w)
              /\ arg' = cmd

\* What the read wrapper hands back: the list the adapter returned
returned(w, resp) ==
    IF w.exc # "none" THEN w ELSE [w EXCEPT !.ret = List(resp)]

\* instance.read_i2c_block_data_sht(length) (rev A),
\* instance.read_i2c_block_data_sht85(length) (rev B), by the caller, for 3
\* or 6 bytes
read_i2c_block_data ==
    /\ Called
    /\ op' = "read_i2c_block_data"
    /\ \/ \E resp \in Frames \cup SampleDataWords :
              /\ Outcome(returned(
                     IF rev = "A"
                     THEN read_i2c_block_data_sht(World, Len(resp), resp)
                     ELSE read_i2c_block_data_sht85(World, Len(resp), resp),
                     resp))
              /\ arg' = Num(Len(resp))
       \/ \E n \in FailPoints :
              LET w == IF rev = "A"
                       THEN read_i2c_block_data_sht(WorldFailing(n), 6, NoFrame)
                       ELSE read_i2c_block_data_sht85(WorldFailing(n), 6,
                                                      NoFrame)
              IN /\ HasFailure(w.busLog)
                 /\ Outcome(w)
                 /\ arg' = Num(6)

\* instance.check_crc(kw) on self.data (rev A), instance.check_crc(buffer, kw)
\* (rev B), by the caller
check_crc ==
    /\ Called
    /\ op' = "check_crc"
    /\ \E buffer \in Frames, kw \in {"data", "sn"} :
           /\ Outcome(IF rev = "B" THEN check_crc_B(World, buffer, kw)
                      ELSE IF data = Unset THEN raise(World, "AttributeError")
                      ELSE check_crc_A(World, kw))
           /\ arg' = [tag |-> "check_crc",
                      buffer |-> IF rev = "B" THEN buffer ELSE <<>>,
                      kw |-> kw]

Next ==
    \/ construct
    \/ set_rep
    \/ set_mps
    \/ set_check_crc_bool
    \/ sn
    \/ status
    \/ check_status_for_non_default
    \/ read_data
    \/ single_shot
    \/ periodic
    \/ fetch
    \/ art
    \/ stop
    \/ reset
    \/ general_call_reset
    \/ interface_reset
    \/ enable_heater
    \/ disable_heater
    \/ heater
    \/ clear_status
    \/ close
    \/ with_block
    \/ write_i2c_block_data
    \/ read_i2c_block_data
    \/ check_crc

Spec == Init /\ [][Next]_vars

----------------------------------------------------------------------------
(* Construction, over the arguments a caller may pass *)

\* Before construction, the arguments chosen
InitCtor ==
    /\ rev \in Revisions
    /\ rep = "unassigned"
    /\ mps = 0
    /\ check_crc_bool = Unset
    /\ data = Unset
    /\ t = None
    /\ rh = None
    /\ dp = None
    /\ handle = "none"
    /\ mode = "Idle"
    /\ op = "init"
    /\ arg \in CtorArgs
    /\ busLog = <<>>
    /\ warns = <<>>
    /\ shown = {}
    /\ calls = 0
    /\ ret = None
    /\ exc = "none"

\* SHT85(arg.bus, arg.rep, arg.mps)
construct_call ==
    /\ op = "init"
    /\ arg.tag = "ctor"
    /\ handle = "none"
    /\ op' = "construct"
    /\ constructed_with(arg)

NextCtor == construct_call

SpecCtor == InitCtor /\ [][NextCtor]_vars

----------------------------------------------------------------------------
(* Direct calls of the pure functions, over their whole domain *)

Buffers == {<<a, b>> : a \in 0..255, b \in 0..255}

\* The 16-bit raw codes of a payload word
RawCodes == 0..65535

\* The function is called on its own; no instance takes part
InitPure ==
    /\ rev \in Revisions
    /\ rep = "unassigned"
    /\ mps = 0
    /\ check_crc_bool = Unset
    /\ data = Unset
    /\ t = None
    /\ rh = None
    /\ dp = None
    /\ handle = "none"
    /\ mode = "Idle"
    /\ op = "init"
    /\ arg \in {List(b) : b \in Buffers}
    /\ busLog = <<>>
    /\ warns = <<>>
    /\ shown = {}
    /\ calls = 0
    /\ ret = None
    /\ exc = "none"

\* self.crc8(buffer)
crc8_call ==
    /\ op = "init"
    /\ arg.tag = "list"
    /\ op' = "crc8"
    /\ ret' = crc8(rev, arg.v)
    /\ UNCHANGED <<rev, rep, mps, check_crc_bool, data, t, rh, dp, handle,
                   mode, arg, busLog, warns, shown, exc, calls>>

NextPure == crc8_call

SpecPure == InitPure /\ [][NextPure]_vars

\* The functions are called on their own; no instance takes part
InitConv ==
    /\ rev \in Revisions
    /\ rep = "unassigned"
    /\ mps = 0
    /\ check_crc_bool = Unset
    /\ data = Unset
    /\ t = None
    /\ rh = None
    /\ dp = None
    /\ handle = "none"
    /\ mode = "Idle"
    /\ op = "init"
    /\ arg \in {Num(r) : r \in RawCodes}
    /\ busLog = <<>>
    /\ warns = <<>>
    /\ shown = {}
    /\ calls = 0
    /\ ret = None
    /\ exc = "none"

\* temp(temp_digital), the same function in both revisions
temp_call ==
    /\ op = "init"
    /\ arg.tag = "num"
    /\ op' = "temp"
    /\ ret' = Num(temp(arg.v))
    /\ UNCHANGED <<rev, rep, mps, check_crc_bool, data, t, rh, dp, handle,
                   mode, arg, busLog, warns, shown, exc, calls>>

\* relative_humidity(rh_digital), the same function in both revisions
relative_humidity_call ==
    /\ op = "init"
    /\ arg.tag = "num"
    /\ op' = "relative_humidity"
    /\ ret' = Num(relative_humidity(arg.v))
    /\ UNCHANGED <<rev, rep, mps, check_crc_bool, data, t, rh, dp, handle,
                   mode, arg, busLog, warns, shown, exc, calls>>

NextConv == temp_call \/ relative_humidity_call

SpecConv == InitConv /\ [][NextConv]_vars

\* A byte pair as the classes write their commands
BytePairs == {ListCmd(m, l) : m \in {36, 48, 243}, l \in 0..255}

\* The function is called on its own, with a command word or with a pair of
\* bytes
InitHex ==
    /\ rev \in Revisions
    /\ rep = "unassigned"
    /\ mps = 0
    /\ check_crc_bool = Unset
    /\ data = Unset
    /\ t = None
    /\ rh = None
    /\ dp = None
    /\ handle = "none"
    /\ mode = "Idle"
    /\ op = "init"
    /\ \/ \E c \in RawCodes : arg = IntCmd(c)
       \/ arg \in BytePairs
    /\ busLog = <<>>
    /\ warns = <<>>
    /\ shown = {}
    /\ calls = 0
    /\ ret = None
    /\ exc = "none"

\* hex_to_bytes(cmd) of conversion_utils (rev A), hex_bytes(cmd) (rev B)
hex_to_bytes_call ==
    /\ op = "init"
    /\ arg.tag \in {"int", "list"}
    /\ op' = "hex_to_bytes"
    /\ LET b == IF rev = "A" THEN hex_to_bytes(arg) ELSE hex_bytes(arg)
       IN /\ exc' = b.exc
          /\ ret' = IF b.exc = "none" THEN List(b.v) ELSE None
    /\ UNCHANGED <<rev, rep, mps, check_crc_bool, data, t, rh, dp, handle,
                   mode, arg, busLog, warns, shown, calls>>

NextHex == hex_to_bytes_call

SpecHex == InitHex /\ [][NextHex]_vars

----------------------------------------------------------------------------
(* read_data over frames that cover every temperature code and every         *)
(* humidity code                                                            *)

\* Humidity codes paired with every temperature code, and temperature codes
\* paired with every humidity code: the ends of the humidity range, and the
\* last code that gives a temperature below zero (-0.01) with the first
\* that gives 0.00
RhCorners == {0, 65535}
TCorners == {16849, 16850}

Codes(a, b) == [tag |-> "codes", t |-> a, rh |-> b]

\* The frame carrying the two codes, each followed by its checksum
FrameOf(c) ==
    LET tw == <<c.t \div 256, c.t % 256>>
        rw == <<c.rh \div 256, c.rh % 256>>
    IN tw \o <<Checksum(tw)>> \o rw \o <<Checksum(rw)>>

\* An instance SHT85(1, "high", 1) on which periodic() has run
InitDew ==
    /\ rev = "B"
    /\ rep = "high"
    /\ mps = 10
    /\ check_crc_bool = Unset
    /\ data = Unset
    /\ t = None
    /\ rh = None
    /\ dp = None
    /\ handle = "open"
    /\ mode = "Periodic"
    /\ op = "init"
    /\ \/ \E a \in RawCodes, b \in RhCorners : arg = Codes(a, b)
       \/ \E a \in TCorners, b \in RawCodes : arg = Codes(a, b)
    /\ busLog = <<>>
    /\ warns = <<>>
    /\ shown = {}
    /\ calls = 0
    /\ ret = None
    /\ exc = "none"

\* instance.read_data(), the sensor answering the frame of the codes in arg
read_data_call ==
    /\ op = "init"
    /\ arg.tag = "codes"
    /\ Called
    /\ op' = "read_data"
    /\ Outcome(IF rev = "A" THEN read_data_A(World, FrameOf(arg))
               ELSE read_data_B(World, FrameOf(arg)))
    /\ UNCHANGED arg

NextDew == read_data_call

SpecDew == InitDew /\ [][NextDew]_vars

----------------------------------------------------------------------------
(* check_status_for_non_default, over every combination of the seven flags *)

\* Offset of a flag in the status word, counted from the most significant
\* bit
FlagOffset(k) ==
    IF k = "Checksum status" THEN 0
    ELSE IF k = "Command status" THEN 1
    ELSE IF k = "System reset" THEN 4
    ELSE IF k = "T tracking alert" THEN 10
    ELSE IF k = "RH tracking alert" THEN 11
    ELSE IF k = "Heater status" THEN 13
    ELSE 15

RECURSIVE FlagWord(_)
FlagWord(flags) ==
    IF flags = {} THEN 0
    ELSE LET k == CHOOSE x \in flags : TRUE
         IN 2 ^ (15 - FlagOffset(k)) + FlagWord(flags \ {k})

\* The 3 bytes the sensor answers when exactly the flags in the set are 1
StatusResponse(flags) ==
    LET wd == <<FlagWord(flags) \div 256, FlagWord(flags) % 256>>
    IN wd \o <<Checksum(wd)>>

\* An instance SHT85(1, "high", 1), nothing warned yet in the process
InitStatus ==
    /\ rev = "B"
    /\ rep = "high"
    /\ mps = 10
    /\ check_crc_bool = Unset
    /\ data = Unset
    /\ t = None
    /\ rh = None
    /\ dp = None
    /\ handle = "open"
    /\ mode = "Idle"
    /\ op = "init"
    /\ arg \in {List(StatusResponse(f)) : f \in SUBSET StatusKeys}
    /\ busLog = <<>>
    /\ warns = <<>>
    /\ shown = {}
    /\ calls = 0
    /\ ret = None
    /\ exc = "none"

\* instance.check_status_for_non_default(), the sensor holding the status
\* word in arg; the caller may call again
check_status_call ==
    /\ arg.tag = "list"
    /\ Called
    /\ op' = "check_status_for_non_default"
    /\ Outcome(IF rev = "A" THEN check_status_for_non_default_A(World, arg.v)
               ELSE check_status_for_non_default_B(World, arg.v))
    /\ UNCHANGED arg

NextStatus == check_status_call

SpecStatus == InitStatus /\ [][NextStatus]_vars

----------------------------------------------------------------------------
(* Vocabulary of the claims *)

\* The configured repeatability and rate are among the legal values
ValidParams == rep \in Repeatabilities /\ mps \in Rates

\* The last operation ran with legal parameters on an open bus handle and
\* met no transport error
Regular == ValidParams /\ handle = "open" /\ ~HasFailure(busLog)

\* The constructor arguments of the last call are legal: a bus number that
\* is not reserved, a repeatability and a rate of the tables
LegalCtorArgs ==
    /\ arg.bus \notin {0, 2}
    /\ arg.rep \in Repeatabilities
    /\ arg.mps \in Rates

\* The driver can be had: a constructor call with legal arguments returns
\* an instance
DriverAvailable == (op = "construct" /\ LegalCtorArgs) => exc = "none"

InWarns(ws, msg) == \E i \in 1..Len(ws) : ws[i] = msg

TemperatureFault(ws) == InWarns(ws, "CRC Error in temperature measurement!")
HumidityFault(ws) == InWarns(ws, "CRC Error in relative humidity measurement!")

IsWrite(e) == e.kind = "write"

\* The command words written in a log, in order
WordsWritten(log) ==
    LET ws == SelectSeq(log, IsWrite)
    IN [i \in 1..Len(ws) |-> Word16(ws[i].register, ws[i].bytes[1])]

\* The Reading decoded from frame f is stored
ReadingOf(f, tv, rhv, dpv) ==
    LET tc == temp(Word16(f[1], f[2]))
        rhm == relative_humidity(Word16(f[4], f[5]))
    IN /\ tv = Num(tc)
       /\ rhv = Num(rhm)
       /\ dpv = dew_point(tc, rhm)

SingleShotWord(r) ==
    IF r = "high" THEN 9216 ELSE IF r = "medium" THEN 9227 ELSE 9238

\* The bit of the 16-bit word w at offset k counted from the most
\* significant bit, as the character the driver returns
BitAt(w, k) == IF (w \div (2 ^ (15 - k))) % 2 = 1 THEN "1" ELSE "0"

----------------------------------------------------------------------------
(* The claims *)

\* C1: for every 2-byte buffer, crc8 of either revision returns the CRC-8
\* (polynomial 0x31, initial value 0xFF) computed over both bytes.
C1_Crc8OverBothBytes ==
    op = "crc8" => ret = Num(Checksum(arg.v))

\* C2: read_data never raises on a frame whose checksum bytes are wrong: it
\* stores the Reading decoded from the frame and reports every mismatching
\* word as a warning.
C2_MismatchNeverAborts ==
    (op = "read_data" /\ Regular) =>
        /\ exc = "none"
        /\ Len(busLog) = 1
        /\ busLog[1].kind = "read"
        /\ LET f == busLog[1].bytes
           IN /\ ReadingOf(f, t, rh, dp)
              /\ f[3] # Checksum(<<f[1], f[2]>>) => TemperatureFault(warns)
              /\ f[6] # Checksum(<<f[4], f[5]>>) => HumidityFault(warns)

\* C3: a temperature fault is reported if and only if byte 2 of the frame is
\* not the CRC-8 of bytes 0..1, and a humidity fault if and only if byte 5 is
\* not the CRC-8 of bytes 3..4.
C3_FaultIsolationPerWord ==
    (op \in {"read_data", "single_shot"} /\ exc = "none") =>
        LET f == busLog[Len(busLog)].bytes
        IN /\ TemperatureFault(warns) <=> f[3] # Checksum(<<f[1], f[2]>>)
           /\ HumidityFault(warns) <=> f[6] # Checksum(<<f[4], f[5]>>)

\* C4: single_shot called on an idle sensor writes the single-shot command
\* of the configured repeatability once, waits its settle delay, reads 6
\* bytes once, validates and converts them, and leaves the sensor idle.
C4_SingleShotSequence ==
    [][(op' = "single_shot" /\ mode = "Idle" /\ Regular') =>
          /\ exc' = "none"
          /\ Len(busLog') = 3
          /\ busLog'[1].kind = "write"
          /\ WordsWritten(busLog') = <<SingleShotWord(rep)>>
          /\ busLog'[2] = SleepEv(WT(rep))
          /\ busLog'[3].kind = "read"
          /\ busLog'[3].length = 6
          /\ LET f == busLog'[3].bytes
             IN /\ ReadingOf(f, t', rh', dp')
                /\ TemperatureFault(warns') <=> f[3] # Checksum(<<f[1], f[2]>>)
                /\ HumidityFault(warns') <=> f[6] # Checksum(<<f[4], f[5]>>)
          /\ mode' = "Idle"]_vars

\* C5: in both revisions the driver can be had, and reset on it writes the
\* break command first and the soft-reset command second, nothing else, and
\* the sensor is idle afterwards whatever its mode was.
C5_ResetStopsFirst ==
    /\ DriverAvailable
    /\ (op = "reset" /\ Regular) =>
           /\ exc = "none"
           /\ WordsWritten(busLog) = <<12435, 12450>>
           /\ mode = "Idle"

\* C6: the mode is always one of Idle, Periodic, AcceleratedResponse, and
\* periodic() or art() called while the sensor is not idle is reported as a
\* fault and writes nothing to the bus.
C6_ModeEntryWhileBusy ==
    [][/\ mode' \in Modes
       /\ (op' \in {"periodic", "art"} /\ mode # "Idle" /\ Regular') =>
             /\ WordsWritten(busLog') = <<>>
             /\ (exc' # "none" \/ warns' # <<>>)
             /\ mode' = mode]_vars

\* C7: stop() on an idle sensor returns normally without any bus transaction
\* or change of state; hence a second stop() in a row changes nothing.
C7_StopIdempotent ==
    [][(op' = "stop" /\ (mode = "Idle" \/ op = "stop") /\ Regular') =>
          /\ exc' = "none"
          /\ busLog' = <<>>
          /\ UNCHANGED <<mode, data, t, rh, dp>>]_vars

\* C8: read_data called while the sensor is idle is reported as a fault, does
\* not read the bus and keeps the Reading; called in Periodic or
\* AcceleratedResponse it makes one 6-byte read and no write.
C8_ReadDataNeedsStreaming ==
    [][(op' = "read_data" /\ Regular') =>
          IF mode = "Idle"
          THEN /\ busLog' = <<>>
               /\ (exc' # "none" \/ warns' # <<>>)
               /\ UNCHANGED <<t, rh, dp>>
          ELSE /\ WordsWritten(busLog') = <<>>
               /\ Len(busLog') = 1
               /\ busLog'[1].kind = "read"
               /\ busLog'[1].length = 6]_vars

\* C9: in both revisions the driver can be had, and status on it writes
\* the status command once, then reads 3 bytes once, and returns each flag
\* as the bit of the word byte0 << 8 | byte1 at its offset from the most
\* significant bit: 0, 1, 4, 10, 11, 13, 15.
C9_StatusDecodesBits ==
    DriverAvailable /\
    ((op = "status" /\ Regular) =>
        /\ exc = "none"
        /\ WordsWritten(busLog) = <<62253>>
        /\ Len(SelectSeq(busLog, IsBusTx)) = 2
        /\ LET r == busLog[Len(busLog)]
               w == Word16(r.bytes[1], r.bytes[2])
           IN /\ r.kind = "read"
              /\ r.length = 3
              /\ ret.tag = "dict"
              /\ ret.v["Checksum status"] = BitAt(w, 0)
              /\ ret.v["Command status"] = BitAt(w, 1)
              /\ ret.v["System reset"] = BitAt(w, 4)
              /\ ret.v["T tracking alert"] = BitAt(w, 10)
              /\ ret.v["RH tracking alert"] = BitAt(w, 11)
              /\ ret.v["Heater status"] = BitAt(w, 13)
              /\ ret.v["Alert pending status"] = BitAt(w, 15))

\* C10: in both revisions the driver can be had, and sn on it writes the
\* serial-number command once, reads 6 bytes b0..b5 and returns
\* (b0 << 24) | (b1 << 16) | (b3 << 8) | b4 to its caller.
C10_SerialNumberValue ==
    DriverAvailable /\
    ((op = "sn" /\ Regular) =>
        /\ exc = "none"
        /\ WordsWritten(busLog) = <<13954>>
        /\ LET r == busLog[Len(busLog)]
               b == r.bytes
           IN /\ r.kind = "read"
              /\ r.length = 6
              /\ ret = Num32(Word16(b[1], b[2]), Word16(b[4], b[5])))

\* The operations that write a command whose settle delay is keyed by rep
RepUsers ==
    {"sn", "status", "check_status_for_non_default", "single_shot",
     "periodic", "fetch", "art", "stop", "reset", "enable_heater",
     "disable_heater", "heater", "clear_status"}

\* The request was rejected: the call raised and attempted no transaction
Rejected == exc # "none" /\ SelectSeq(busLog, IsBusTx) = <<>>

\* The value of flag k in the 3-byte status answer b
FlagOf(b, k) == BitAt(Word16(b[1], b[2]), FlagOffset(k))

\* The flags of the status answer b that differ from the default the
\* revision compares with
NonDefault(b) ==
    {k \in StatusKeys : FlagOf(b, k) # default_status_dict(rev)[k]}

\* The settle delay of a repeatability, in microseconds
SettleDelay(r) ==
    IF r = "high" THEN 16000 ELSE IF r = "medium" THEN 7000 ELSE 5000

\* C11: constructing the sensor with bus number 0 or 2 fails before any
\* adapter call: the bus handle is never opened and no read or write reaches
\* the bus.
C11_ReservedBusRejected ==
    (op = "construct" /\ arg.bus \in {0, 2}) =>
        /\ exc # "none"
        /\ handle = "none"
        /\ SelectSeq(busLog, IsBusTx) = <<>>

C11_Witness ==
    /\ op = "construct"
    /\ rev = "B"
    /\ arg.bus = 2
    /\ arg.rep = "high"
    /\ exc = "AssertionError"
    /\ handle = "none"

\* C12: an operation that uses a repeatability outside {high, medium, low},
\* a rate outside {0.5, 1, 2, 4, 10} or a heater state outside {enable,
\* disable} raises without attempting a bus transaction, also when rep or
\* mps was assigned after construction.
C12_InvalidParameterRejected ==
    /\ (op \in RepUsers /\ rep \notin Repeatabilities) => Rejected
    /\ (op = "periodic" /\ mps \notin Rates) => Rejected
    /\ (op = "heater" /\ arg.v \notin {"enable", "disable"}) => Rejected

\* C13: for each of the 2^7 combinations of the seven status flags,
\* check_status_for_non_default returns normally with exactly one warning
\* for each flag that differs from the default register value.
C13_StatusCheckNonFatal ==
    op = "check_status_for_non_default" =>
        /\ exc = "none"
        /\ ret = None
        /\ Len(warns) = Cardinality(NonDefault(arg.v))
        /\ \A k \in NonDefault(arg.v) : InWarns(warns, status_message(rev, k))

\* C14: leaving a with block over the instance, normally or through an
\* exception raised inside it, runs close() and releases the bus handle.
C14_ScopedAcquisition ==
    op = "with_block" => handle = "closed"

\* C15: when an adapter call of an operation ends in a transport error, the
\* operation raises that error, makes no bus transaction after the failed
\* one, and leaves the stored Reading (t, rh, dp) as it was.
C15_TransportErrorPropagates ==
    [][HasFailure(busLog') =>
          /\ exc' = "OSError"
          /\ \A i \in 1..Len(busLog') :
                 ~busLog'[i].ok =>
                     \A j \in (i + 1)..Len(busLog') : ~IsBusTx(busLog'[j])
          /\ UNCHANGED <<t, rh, dp>>]_vars

C15_Witness ==
    /\ op = "single_shot"
    /\ rev = "B"
    /\ exc = "OSError"
    /\ t # None
    /\ Len(busLog) = 3
    /\ busLog[3].kind = "read"
    /\ ~busLog[3].ok

\* C16: for every raw code r in 0..65535, temp(r) lies in [-45.00, 130.00],
\* temp(0) = -45.00, temp(65535) = 130.00, and temp(r) <= temp(r + 1).
C16_TempRangeMonotone ==
    op = "temp" =>
        /\ ret.v >= -4500
        /\ ret.v <= 13000
        /\ arg.v = 0 => ret.v = -4500
        /\ arg.v = 65535 => ret.v = 13000
        /\ arg.v < 65535 => ret.v <= temp(arg.v + 1)

C16_Witness == op = "temp" /\ arg.v = 65535 /\ ret.v = 13000

\* C17: for every raw code r in 0..65535, relative_humidity(r) lies in
\* [0.001, 100.00], is never 0, does not decrease as r grows, and is 0.001
\* exactly when round(100 * r / 65535, 2) is below 0.01.
C17_HumidityRangeMonotone ==
    op = "relative_humidity" =>
        /\ ret.v >= 1
        /\ ret.v <= 100000
        /\ ret.v # 0
        /\ arg.v < 65535 => ret.v <= relative_humidity(arg.v + 1)
        /\ ret.v = 1 <=> RoundDiv(10000 * arg.v, 65535) < 1

C17_Witness == op = "relative_humidity" /\ arg.v = 3 /\ ret.v = 1

\* C18: read_data and single_shot return the Reading decoded from the frame
\* just read to their caller.
C18_ReadingReturned ==
    (op \in {"read_data", "single_shot"} /\ exc = "none") =>
        /\ ret # None
        /\ ret.tag = "tuple"
        /\ ReadingOf(busLog[Len(busLog)].bytes, ret.v[1], ret.v[2], ret.v[3])

\* C19: in both revisions the driver can be had, and enable_heater and
\* disable_heater (in rev B heater with 'enable' or 'disable', however the
\* caller hands the state over) are accepted on it in every sensor mode,
\* write exactly one command word, 0x306D or 0x3066, and leave the sensor
\* mode, rep, mps and the stored Reading unchanged.
C19_HeaterFrame ==
    [][/\ DriverAvailable'
       /\ (rev = "A" /\ op' = "enable_heater" /\ Regular') =>
             /\ exc' = "none"
             /\ WordsWritten(busLog') = <<12397>>
             /\ UNCHANGED <<mode, rep, mps, t, rh, dp>>
       /\ (rev = "A" /\ op' = "disable_heater" /\ Regular') =>
             /\ exc' = "none"
             /\ WordsWritten(busLog') = <<12390>>
             /\ UNCHANGED <<mode, rep, mps, t, rh, dp>>
       /\ (rev = "B" /\ op' = "heater" /\ Regular'
              /\ arg'.v \in {"enable", "disable"}) =>
             /\ exc' = "none"
             /\ WordsWritten(busLog') =
                    <<IF arg'.v = "enable" THEN 12397 ELSE 12390>>
             /\ UNCHANGED <<mode, rep, mps, t, rh, dp>>]_vars

\* C20 as stated: every command write is followed by its settle delay, which
\* is 16, 7 or 5 ms by repeatability for every command except periodic and
\* art, which wait 0.5 ms.
C20_SettleDelayByCommand ==
    (op \in RepUsers /\ Regular) =>
        \A i \in 1..Len(busLog) :
            busLog[i].kind = "write" =>
                /\ i < Len(busLog)
                /\ busLog[i + 1] = SleepEv(IF op \in {"periodic", "art"}
                                           THEN 500 ELSE SettleDelay(rep))

\* C20, amended: every command write is followed at once, before the next
\* bus transaction of the driver, by its settle delay, which is 16, 7 or
\* 5 ms by the configured repeatability for every command, periodic and art
\* included.
C20_SettleDelayByRepeatability ==
    Regular =>
        \A i \in 1..Len(busLog) :
            busLog[i].kind = "write" =>
                /\ i < Len(busLog)
                /\ busLog[i + 1] = SleepEv(SettleDelay(rep))

C20_Witness ==
    /\ op = "periodic"
    /\ rev = "B"
    /\ rep = "high"
    /\ exc = "none"
    /\ Len(busLog) = 2
    /\ busLog[1].kind = "write"
    /\ busLog[2] = SleepEv(16000)

\* The command word of a command given as an int or as a pair of bytes
WordOf(cmd) ==
    IF cmd.tag = "int" THEN cmd.v ELSE Word16(cmd.v[1], cmd.v[2])

\* C21: for every command, given as a 16-bit word or as the pair of bytes
\* [msb, lsb] the classes of rev A write, the conversion of the write
\* wrapper returns the two bytes of the command word, most significant byte
\* first, with 256 * msb + lsb the command word.
C21_CommandAsTwoBytes ==
    op = "hex_to_bytes" =>
        /\ exc = "none"
        /\ ret = List(<<WordOf(arg) \div 256, WordOf(arg) % 256>>)
        /\ 256 * ret.v[1] + ret.v[2] = WordOf(arg)

\* The step ended with a measurement frame read from the sensor
FrameDecoded ==
    /\ op' \in {"read_data", "single_shot"}
    /\ busLog' # <<>>
    /\ busLog'[Len(busLog')].kind = "read"
    /\ busLog'[Len(busLog')].ok

\* C22: t, rh and dp are unset together (as they are after construction) or
\* set together; a step that reads a measurement frame stores the three
\* values decoded from that frame, with dp = dew_point(t, rh), and every
\* other step leaves the three as they were.
C22_ReadingConsistent ==
    /\ (t = None /\ rh = None /\ dp = None)
    /\ [][/\ (t' = None) <=> (rh' = None)
          /\ (rh' = None) <=> (dp' = None)
          /\ IF FrameDecoded
             THEN ReadingOf(busLog'[Len(busLog')].bytes, t', rh', dp')
             ELSE UNCHANGED <<t, rh, dp>>]_vars

C22_Witness ==
    /\ op = "read_data"
    /\ rev = "B"
    /\ exc = "none"
    /\ busLog[1].bytes[1] = 190
    /\ busLog[1].bytes[4] = 0
    /\ t = Num(temp(Word16(190, 239)))
    /\ rh = Num(1)
    /\ dp = dew_point(t.v, rh.v)

FirstWordFault(ws) ==
    \/ InWarns(ws, "CRC Error in temperature measurement!")
    \/ InWarns(ws, "CRC Error in the first word!")

SecondWordFault(ws) ==
    \/ InWarns(ws, "CRC Error in relative humidity measurement!")
    \/ InWarns(ws, "CRC Error in the second word!")

ReadingOps ==
    {"sn", "status", "check_status_for_non_default", "read_data",
     "single_shot"}

\* C23: whenever an operation has read a response from the sensor (the 6
\* bytes of a measurement frame or of the serial number, the 3 bytes of the
\* status word), every word of it whose checksum byte is not the CRC-8 of
\* its two payload bytes is reported as a warning.
C23_NoFaultSwallowed ==
    (/\ op \in ReadingOps
     /\ busLog # <<>>
     /\ busLog[Len(busLog)].kind = "read"
     /\ busLog[Len(busLog)].ok) =>
        LET f == busLog[Len(busLog)].bytes
        IN /\ f[3] # Checksum(<<f[1], f[2]>>) => FirstWordFault(warns)
           /\ (Len(f) = 6 /\ f[6] # Checksum(<<f[4], f[5]>>))
                  => SecondWordFault(warns)

\* C24: for every frame, the dew-point step of read_data meets its
\* arithmetic preconditions and raises nothing: the humidity passed is > 0
\* (the logarithm is defined) and at most 100 (the logarithm is <= 0),
\* lambda + t is positive, hence not 0, and with beta > 0 the divisor
\* beta - ln(rh/100) - beta*t/(lambda + t) is positive, hence not 0; the
\* coefficients are (17.62, 243.12) exactly when t >= 0 and
\* (22.46, 272.62) when t < 0.
C24_DewPointDefined ==
    op = "read_data" =>
        /\ exc = "none"
        /\ dp # None
        /\ dp.t = t.v
        /\ dp.rh = rh.v
        /\ rh.v > 0
        /\ rh.v <= 100000
        /\ dp.coeff.lambda + t.v > 0
        /\ dp.coeff.beta > 0
        /\ t.v >= 0 <=> dp.coeff = [beta |-> 1762, lambda |-> 24312]
        /\ t.v < 0 <=> dp.coeff = [beta |-> 2246, lambda |-> 27262]

C24_Witness ==
    /\ op = "read_data"
    /\ arg.t = 16850
    /\ arg.rh = 0
    /\ t = Num(0)
    /\ rh = Num(1)
    /\ dp.t_range = "water"
    /\ exc = "none"

\* C25: a constructor call that fails leaves no bus handle open and has made
\* no bus transaction, and a call with a reserved bus number, an invalid
\* repeatability or an invalid rate does fail.
C25_ConstructionAllOrNothing ==
    op = "construct" =>
        /\ exc # "none" => (handle = "none" /\ SelectSeq(busLog, IsBusTx) = <<>>)
        /\ exc = "none" => handle = "open"
        /\ (\/ arg.bus \in {0, 2}
            \/ arg.rep \notin Repeatabilities
            \/ arg.mps \notin Rates) => exc # "none"

C25_Witness ==
    /\ op = "construct"
    /\ rev = "B"
    /\ arg.bus = 1
    /\ arg.rep = "bogus"
    /\ arg.mps = 10
    /\ exc = "AssertionError"
    /\ handle = "none"
    /\ busLog = <<>>

====
